---- MODULE Spec2Model ----
(***************************************************************************)
(* Model of fake_news_detector.py: the heuristic scorer                    *)
(* detect_fake_news_mock and the Streamlit script main_app that calls it.  *)
(*                                                                         *)
(* A text is a sequence of one-character strings.  Python floats are       *)
(* modelled as exact rationals in lowest terms (IEEE rounding is not       *)
(* modelled).                                                              *)
(***************************************************************************)
EXTENDS Integers, Sequences, FiniteSets, TLC

(***************************************************************************)
(* Characters: what str.lower, str.isupper and str.split distinguish.      *)
(***************************************************************************)
UpperLetters ==
  <<"A", "B", "C", "D", "E", "F", "G", "H", "I", "J", "K", "L", "M",
    "N", "O", "P", "Q", "R", "S", "T", "U", "V", "W", "X", "Y", "Z">>

LowerLetters ==
  <<"a", "b", "c", "d", "e", "f", "g", "h", "i", "j", "k", "l", "m",
    "n", "o", "p", "q", "r", "s", "t", "u", "v", "w", "x", "y", "z">>

UpperSet == {UpperLetters[i] : i \in DOMAIN UpperLetters}

LowerSet == {LowerLetters[i] : i \in DOMAIN LowerLetters}

\* The characters str.split() treats as separators (those the inputs use).
Whitespace == {" ", "\t", "\n"}

LowerOf ==
  [c \in UpperSet |->
     LowerLetters[CHOOSE i \in DOMAIN UpperLetters : UpperLetters[i] = c]]

\* str.lower() on one character: cased letters fold, everything else stays.
LowerChar(c) == IF c \in UpperSet THEN LowerOf[c] ELSE c

\* text.lower()
str_lower(t) == [i \in DOMAIN t |-> LowerChar(t[i])]

\* `word in s` for strings: word occurs in s as a contiguous substring.
str_in(word, s) ==
  \E p \in 0..(Len(s) - Len(word)) :
     \A j \in DOMAIN word : s[p + j] = word[j]

\* The elements of a set of positions within lo..hi, in increasing order.
RECURSIVE Ascending(_, _, _)
Ascending(S, lo, hi) ==
  IF lo > hi THEN <<>>
  ELSE IF lo = hi THEN (IF lo \in S THEN <<lo>> ELSE <<>>)
  ELSE LET mid == (lo + hi) \div 2
       IN  Ascending(S, lo, mid) \o Ascending(S, mid + 1, hi)

\* Positions where a maximal run of non-whitespace characters starts / ends.
TokenStarts(t) ==
  {i \in DOMAIN t : t[i] \notin Whitespace /\ (i = 1 \/ t[i - 1] \in Whitespace)}

TokenEnds(t) ==
  {i \in DOMAIN t :
     t[i] \notin Whitespace /\ (i = Len(t) \/ t[i + 1] \in Whitespace)}

\* text.split(): the maximal runs of non-whitespace characters, in order;
\* leading, trailing and repeated whitespace yields no empty token.
str_split(t) ==
  LET starts == Ascending(TokenStarts(t), 1, Len(t))
      ends   == Ascending(TokenEnds(t), 1, Len(t))
  IN  [k \in DOMAIN starts |-> SubSeq(t, starts[k], ends[k])]

\* word.isupper(): at least one cased character and no lowercase one.
str_isupper(w) ==
  /\ \E i \in DOMAIN w : w[i] \in UpperSet
  /\ \A i \in DOMAIN w : w[i] \notin LowerSet

(***************************************************************************)
(* Exact rationals [n, d] in lowest terms with d > 0.                      *)
(***************************************************************************)
Abs(x) == IF x < 0 THEN -x ELSE x

RECURSIVE GCD(_, _)
GCD(a, b) == IF b = 0 THEN a ELSE GCD(b, a % b)

Rat(n, d) ==
  LET g == GCD(Abs(n), d)
  IN  [n |-> n \div g, d |-> d \div g]

RatSub(a, b) == Rat(a.n * b.d - b.n * a.d, a.d * b.d)

RatAdd(a, b) == Rat(a.n * b.d + b.n * a.d, a.d * b.d)

RatMul(a, b) == Rat(a.n * b.n, a.d * b.d)

RatLe(a, b) == a.n * b.d <= b.n * a.d

RatLt(a, b) == a.n * b.d < b.n * a.d

RatMax(a, b) == IF RatLe(a, b) THEN b ELSE a

RatMin(a, b) == IF RatLe(a, b) THEN a ELSE b

(***************************************************************************)
(* detect_fake_news_mock: constants of the function body.                  *)
(***************************************************************************)
sensational_words ==
  << <<"s", "h", "o", "c", "k", "i", "n", "g">>,
     <<"b", "o", "m", "b", "s", "h", "e", "l", "l">>,
     <<"m", "u", "s", "t", "-", "s", "e", "e">>,
     <<"d", "i", "s", "a", "s", "t", "e", "r">>,
     <<"u", "r", "g", "e", "n", "t", " ", "a", "l", "e", "r", "t">>,
     <<"m", "a", "s", "s", "i", "v", "e", " ", "c", "o", "v", "e", "r", "-", "u", "p">>,
     <<"s", "e", "c", "r", "e", "t", "l", "y">>,
     <<"e", "x", "p", "e", "r", "t", "s", " ", "a", "g", "r", "e", "e">>,
     <<"s", "h", "a", "r", "e", " ", "t", "h", "i", "s", " ", "i", "m", "m", "e", "d", "i", "a", "t", "e", "l", "y">>,
     <<"r", "e", "v", "e", "a", "l", "s", " ", "a", "l", "l">>,
     <<"e", "x", "p", "o", "s", "e", "d">>,
     <<"s", "c", "a", "n", "d", "a", "l">>,
     <<"b", "r", "e", "a", "k", "i", "n", "g", " ", "n", "o", "w">>,
     <<"l", "i", "e">>,
     <<"f", "r", "a", "u", "d">> >>

\* The list literal assigned to corrective_links when prediction == 0.
FAKE_LINKS ==
  << [title |-> "Fact-Check: Separating Science from Misinformation (Science Journal)",
      url   |-> "https://trustedscience.org/fact-check"],
     [title |-> "Official Statement on Economic Outlook (Federal Reserve)",
      url   |-> "https://federalreserve.gov/latest-reports"],
     [title |-> "Understanding Clickbait Language: A Guide to Media Literacy",
      url   |-> "https://medialiteracy.org/clickbait-guide"] >>

\* `if word_count < 100`
SHORT_WORDS == 100

\* `elif word_count > 300`
LONG_WORDS == 300

\* `len(word) > 2`
CAPS_MIN_LEN == 2

BASE_PROB == Rat(1, 2)

SENSATIONAL_WEIGHT == Rat(8, 100)

CAPS_WEIGHT == Rat(3, 10)

SHORT_PENALTY == Rat(15, 100)

LONG_BONUS == Rat(10, 100)

PROB_MIN == Rat(5, 100)

PROB_MAX == Rat(95, 100)

(***************************************************************************)
(* detect_fake_news_mock: the expressions of the function body.            *)
(***************************************************************************)
\* A mutant of text_is_falsy: whitespace-only text is treated as empty too.
text_is_blank(t) == \A i \in DOMAIN t : t[i] \in Whitespace

\* `not text` for a str: true of the empty string only.
text_is_falsy(t) == t = <<>>

\* A mutant of count_sensational: every occurrence of a phrase adds 1.
count_sensational_occurrences(t) ==
  Cardinality({kp \in (DOMAIN sensational_words) \X (0..Len(t)) :
     LET word == sensational_words[kp[1]]
     IN  /\ kp[2] + Len(word) <= Len(t)
         /\ \A j \in DOMAIN word : str_lower(t)[kp[2] + j] = word[j]})

\* sum(1 for word in sensational_words if word in text.lower())
count_sensational(t) ==
  Len(SelectSeq(sensational_words, LAMBDA word : str_in(word, str_lower(t))))

\* A mutant of is_caps_word: `len(word) >= 2`.
is_caps_word_ge(word) == str_isupper(word) /\ Len(word) >= CAPS_MIN_LEN

\* `word.isupper() and len(word) > 2`
is_caps_word(word) == str_isupper(word) /\ Len(word) > CAPS_MIN_LEN

\* sum(1 for word in text.split() if word.isupper() and len(word) > 2)
count_all_caps(t) == Len(SelectSeq(str_split(t), is_caps_word))

\* len(text.split())
count_words(t) == Len(str_split(t))

\* prob_real = 0.5; prob_real -= (sensational_count * 0.08)
after_sensational(s) == RatSub(BASE_PROB, RatMul(Rat(s, 1), SENSATIONAL_WEIGHT))

\* if word_count > 0: caps_ratio = all_caps_words / word_count;
\*                    prob_real -= (caps_ratio * 0.3)
after_caps(p, a, w) ==
  IF w > 0 THEN RatSub(p, RatMul(Rat(a, w), CAPS_WEIGHT)) ELSE p

\* A mutant of after_length: `elif word_count >= 300`.
after_length_ge(p, w) ==
  IF w < SHORT_WORDS THEN RatSub(p, SHORT_PENALTY)
  ELSE IF w >= LONG_WORDS THEN RatAdd(p, LONG_BONUS)
  ELSE p

\* A mutant of after_length: short texts are not penalised.
after_length_no_penalty(p, w) ==
  IF w > LONG_WORDS THEN RatAdd(p, LONG_BONUS) ELSE p

\* if word_count < 100: prob_real -= 0.15
\* elif word_count > 300: prob_real += 0.10
after_length(p, w) ==
  IF w < SHORT_WORDS THEN RatSub(p, SHORT_PENALTY)
  ELSE IF w > LONG_WORDS THEN RatAdd(p, LONG_BONUS)
  ELSE p

\* A mutant of clamp: the value is returned as computed.
clamp_missing(p) == p

\* max(0.05, min(0.95, prob_real))
clamp(p) == RatMax(PROB_MIN, RatMin(PROB_MAX, p))

\* A mutant of predict: `prob_real > 0.5`.
predict_strict(p) == IF RatLt(BASE_PROB, p) THEN 1 ELSE 0

\* 1 if prob_real >= 0.5 else 0
predict(p) == IF RatLe(BASE_PROB, p) THEN 1 ELSE 0

\* A mutant of links_for: the links are attached whatever the prediction.
links_always(pred) == FAKE_LINKS

\* corrective_links = []; if prediction == 0: corrective_links = [...]
links_for(pred) == IF pred = 0 THEN FAKE_LINKS ELSE <<>>

\* The whole function: the tuple (prediction, prob_real, corrective_links).
detect_fake_news_mock(t) ==
  IF text_is_falsy(t) THEN <<0, BASE_PROB, <<>>>>
  ELSE LET s == count_sensational(t)
           a == count_all_caps(t)
           w == count_words(t)
           p == clamp(after_length(after_caps(after_sensational(s), a, w), w))
       IN  <<predict(p), p, links_for(predict(p))>>

(***************************************************************************)
(* Input texts.  A short text is up to MaxFrags fragments; a long text is  *)
(* up to MaxPaddedFrags fragments followed by a run of filler words that   *)
(* brings the word count to either side of the two thresholds.             *)
(***************************************************************************)
MaxFrags == 3

MaxPaddedFrags == 1

Fragments ==
  << <<"l", "i", "e", " ">>,                                    \* "lie "
     <<"L", "I", "E", " ">>,                                    \* "LIE "
     <<"b", "e", "l", "i", "e", "f", "\n">>,                    \* "belief\n"
     <<"U", "R", "G", "E", "N", "T", " ", "A", "L", "E", "R", "T", ":", " ">>,
     <<"u", "r", "g", "e", "n", "t", "\n", "a", "l", "e", "r", "t", " ">>,
     <<"5", ".", "2", "5", "%", " ">>,                          \* "5.25% "
     <<"O", "K", " ">>,                                         \* "OK "
     <<" ">> >>                                                 \* " "

\* "an " and "NEW ": the filler tokens.
LowerFiller == <<"a", "n", " ">>

CapsFiller == <<"N", "E", "W", " ">>

\* <<lowercase filler words, all-caps filler words>>
PadShapes ==
  { <<SHORT_WORDS - 2, 0>>, <<SHORT_WORDS - 1, 0>>, <<SHORT_WORDS, 0>>,
    <<LONG_WORDS - 1, 0>>, <<LONG_WORDS, 0>>, <<LONG_WORDS + 1, 0>>,
    <<2 * (SHORT_WORDS + 1), SHORT_WORDS + 1>> }

RECURSIVE Repeat(_, _)
Repeat(w, n) ==
  IF n = 0 THEN <<>>
  ELSE IF n = 1 THEN w
  ELSE Repeat(w, n \div 2) \o Repeat(w, n - (n \div 2))

RECURSIVE Concat(_)
Concat(ix) ==
  IF ix = <<>> THEN <<>> ELSE Fragments[Head(ix)] \o Concat(Tail(ix))

Bases(k) == UNION {[1..m -> DOMAIN Fragments] : m \in 0..k}

Padding(p) == Repeat(LowerFiller, p[1]) \o Repeat(CapsFiller, p[2])

ShortInputs == {Concat(b) : b \in Bases(MaxFrags)}

LongInputs ==
  {Concat(b) \o Padding(p) : b \in Bases(MaxPaddedFrags), p \in PadShapes}

Inputs == ShortInputs \cup LongInputs

(***************************************************************************)
(* main_app: constants of the script.                                      *)
(***************************************************************************)
\* The text the "Load Fake Example" button puts in the box.
FAKE_EXAMPLE ==
  <<"U", "R", "G", "E", "N", "T", " ", "A", "L", "E", "R", "T", ":", " ",
     "S", "c", "i", "e", "n", "t", "i", "s", "t", "s", " ", "c", "o", "n",
     "f", "i", "r", "m", " ", "t", "h", "a", "t", " ", "d", "r", "i", "n",
     "k", "i", "n", "g", " ", "l", "e", "m", "o", "n", " ", "w", "a", "t",
     "e", "r", " ", "a", "t", " ", "e", "x", "a", "c", "t", "l", "y", " ",
     "3", ":", "0", "0", " ", "A", "M", " ", "r", "e", "v", "e", "r", "s",
     "e", "s", " ", "a", "g", "i", "n", "g", " ", "c", "o", "m", "p", "l",
     "e", "t", "e", "l", "y", ".", " ", "T", "h", "e", " ", "f", "i", "n",
     "d", "i", "n", "g", "s", " ", "w", "e", "r", "e", " ", "b", "a", "s",
     "e", "d", " ", "o", "n", " ", "a", " ", "s", "t", "u", "d", "y", " ",
     "o", "f", " ", "a", " ", "s", "i", "n", "g", "l", "e", " ", "m", "o",
     "u", "s", "e", ",", " ", "b", "u", "t", " ", "e", "x", "p", "e", "r",
     "t", "s", " ", "a", "g", "r", "e", "e", " ", "t", "h", "i", "s", " ",
     "i", "s", " ", "t", "h", "e", " ", "M", "O", "S", "T", " ", "S", "H",
     "O", "C", "K", "I", "N", "G", " ", "d", "i", "s", "c", "o", "v", "e",
     "r", "y", " ", "o", "f", " ", "t", "h", "e", " ", "d", "e", "c", "a",
     "d", "e", "!", " ", "S", "h", "a", "r", "e", " ", "t", "h", "i", "s",
     " ", "i", "m", "m", "e", "d", "i", "a", "t", "e", "l", "y", "!">>

\* The text the "Load Real Example" button puts in the box.
REAL_EXAMPLE ==
  <<"O", "n", " ", "T", "h", "u", "r", "s", "d", "a", "y", ",", " ", "t",
     "h", "e", " ", "F", "e", "d", "e", "r", "a", "l", " ", "R", "e", "s",
     "e", "r", "v", "e", " ", "a", "n", "n", "o", "u", "n", "c", "e", "d",
     " ", "i", "t", " ", "w", "o", "u", "l", "d", " ", "k", "e", "e", "p",
     " ", "i", "t", "s", " ", "b", "e", "n", "c", "h", "m", "a", "r", "k",
     " ", "i", "n", "t", "e", "r", "e", "s", "t", " ", "r", "a", "t", "e",
     " ", "t", "a", "r", "g", "e", "t", " ", "u", "n", "c", "h", "a", "n",
     "g", "e", "d", ",", " ", "h", "o", "l", "d", "i", "n", "g", " ", "s",
     "t", "e", "a", "d", "y", " ", "i", "n", " ", "t", "h", "e", " ", "r",
     "a", "n", "g", "e", " ", "o", "f", " ", "5", ".", "2", "5", "%", " ",
     "t", "o", " ", "5", ".", "5", "0", "%", ".", " ", "T", "h", "i", "s",
     " ", "d", "e", "c", "i", "s", "i", "o", "n", " ", "f", "o", "l", "l",
     "o", "w", "s", " ", "a", " ", "p", "e", "r", "i", "o", "d", " ", "o",
     "f", " ", "s", "t", "a", "b", "l", "e", " ", "i", "n", "f", "l", "a",
     "t", "i", "o", "n", " ", "d", "a", "t", "a", " ", "a", "n", "d", " ",
     "a", " ", "t", "i", "g", "h", "t", "e", "n", "i", "n", "g", " ", "l",
     "a", "b", "o", "r", " ", "m", "a", "r", "k", "e", "t", ",", " ", "s",
     "u", "g", "g", "e", "s", "t", "i", "n", "g", " ", "a", " ", "c", "a",
     "u", "t", "i", "o", "u", "s", " ", "b", "u", "t", " ", "o", "p", "t",
     "i", "m", "i", "s", "t", "i", "c", " ", "o", "u", "t", "l", "o", "o",
     "k", " ", "o", "n", " ", "e", "c", "o", "n", "o", "m", "i", "c", " ",
     "r", "e", "c", "o", "v", "e", "r", "y", ".">>

\* `for i in range(100)`
PROGRESS_STEPS == 100

\* What the user may have typed in the text area.
TypedTexts ==
  { <<>>, <<" ">>, Fragments[1], Padding(<<SHORT_WORDS, 0>>),
    FAKE_EXAMPLE, REAL_EXAMPLE }

\* A mutant of input_is_missing: the script analyses whatever is in the box.
input_never_missing(t) == FALSE

\* `if not current_news_text`
input_is_missing(t) == t = <<>>

\* What one script run has rendered so far (each run starts from a clean page).
BlankScreen ==
  [error |-> FALSE, info |-> FALSE, bar |-> "absent", card |-> <<>>,
   links |-> <<>>, details |-> FALSE]

\* display_corrective_links(links): nothing is rendered for an empty list.
display_corrective_links(links) == links

\* display_result(prediction, confidence, corrective_links): the card, and
\* the links only when prediction == 0.
display_result(scr, prediction, confidence, links) ==
  [scr EXCEPT
     !.card  = <<[label       |-> IF prediction = 1 THEN "REAL NEWS" ELSE "FAKE NEWS",
                  score_label |-> IF prediction = 1 THEN "Confidence Score"
                                                    ELSE "Fakiness Score",
                  prediction  |-> prediction,
                  confidence  |-> confidence,
                  corrective_links |-> links]>>,
     !.links = IF prediction = 0 THEN display_corrective_links(links) ELSE <<>>]

(***************************************************************************)
(* Callers of detect_fake_news_mock that keep the returned list.           *)
(***************************************************************************)
MaxCalls == 3

MaxMutations == 2

\* The texts a caller scores, by position.
CallTexts ==
  << <<>>, <<" ">>, Fragments[1], Padding(<<SHORT_WORDS, 0>>) >>

\* What detect_fake_news_mock computes for each of them.
CallResults ==
  << detect_fake_news_mock(CallTexts[1]), detect_fake_news_mock(CallTexts[2]),
     detect_fake_news_mock(CallTexts[3]), detect_fake_news_mock(CallTexts[4]) >>

JUNK_LINK == [title |-> "edited by the caller", url |-> "about:blank"]

\* A mutant of result_list: the list built for a text is kept and handed
\* out again to the next call with the same text.
result_list_cached(h, lg, k) ==
  IF \E j \in DOMAIN lg : lg[j].arg = k
  THEN lg[CHOOSE j \in DOMAIN lg : lg[j].arg = k].ref
  ELSE Len(h) + 1

\* `[]` and `[{...}, {...}, {...}]` are list displays: every call builds a
\* new list object (the next free heap address).
result_list(h, lg, k) == Len(h) + 1

(***************************************************************************)
(* State.                                                                  *)
(***************************************************************************)
VARIABLES
  text,    \* the argument of the running call of detect_fake_news_mock
  pc,      \* the call's position in the function body
  frame,   \* the call's local variables that are bound, by name
  ret,     \* the returned tuple, <<>> until the call returns
  heap,    \* the list objects returned to a caller, by address
  log,     \* the calls a caller made: argument, returned tuple as returned
  mutations,          \* how many times the caller changed a returned list
  scored,             \* detect_fake_news_mock's value for each of CallTexts
  news_input_key,     \* st.session_state.news_input_key: the text in the box
  button,             \* the button whose click started this script run
  app_pc,             \* the script run's position in main_app
  current_news_text,  \* main_app's local: the box as read by this run
  i,                  \* the progress loop's counter
  screen,             \* what this run has rendered
  result              \* (prediction, confidence, corrective_links), <<>> before

scorer_vars == <<text, pc, frame, ret>>

caller_vars == <<heap, log, mutations, scored>>

app_vars ==
  <<news_input_key, button, app_pc, current_news_text, i, screen, result>>

vars == <<scorer_vars, caller_vars, app_vars>>

ScorerUnused == text = <<>> /\ pc = "unused" /\ frame = <<>> /\ ret = <<>>

CallerUnused == heap = <<>> /\ log = <<>> /\ mutations = 0 /\ scored = <<>>

AppUnused ==
  /\ news_input_key = <<>>
  /\ button = "none"
  /\ app_pc = "unused"
  /\ current_news_text = <<>>
  /\ i = 0
  /\ screen = BlankScreen
  /\ result = <<>>

(***************************************************************************)
(* One call of detect_fake_news_mock, statement by statement.              *)
(***************************************************************************)
Init ==
  /\ text \in Inputs
  /\ pc = "entry"
  /\ frame = <<>>
  /\ ret = <<>>
  /\ CallerUnused
  /\ AppUnused

\* if not text: return 0, 0.5, []
ReturnDefault ==
  /\ pc = "entry"
  /\ text_is_falsy(text)
  /\ ret' = <<0, BASE_PROB, <<>>>>
  /\ pc' = "returned"
  /\ UNCHANGED <<text, frame, caller_vars, app_vars>>

\* sensational_count, all_caps_words and word_count are computed.
ExtractFeatures ==
  /\ pc = "entry"
  /\ ~text_is_falsy(text)
  /\ frame' = [sensational_count |-> count_sensational(text),
               all_caps_words    |-> count_all_caps(text),
               word_count        |-> count_words(text)]
  /\ pc' = "score"
  /\ UNCHANGED <<text, ret, caller_vars, app_vars>>

\* prob_real = 0.5 and the three adjustments; caps_ratio is bound only
\* when word_count > 0.
ApplyPenalties ==
  /\ pc = "score"
  /\ LET s == frame.sensational_count
         a == frame.all_caps_words
         w == frame.word_count
         p == after_length(after_caps(after_sensational(s), a, w), w)
     IN  frame' = IF w > 0
                  THEN frame @@ [caps_ratio |-> Rat(a, w), prob_real |-> p]
                  ELSE frame @@ [prob_real |-> p]
  /\ pc' = "clamp"
  /\ UNCHANGED <<text, ret, caller_vars, app_vars>>

\* prob_real = max(0.05, min(0.95, prob_real)); prediction = ...
ClampAndPredict ==
  /\ pc = "clamp"
  /\ LET p == clamp(frame.prob_real)
     IN  frame' = [frame EXCEPT !.prob_real = p] @@ [prediction |-> predict(p)]
  /\ pc' = "links"
  /\ UNCHANGED <<text, ret, caller_vars, app_vars>>

\* corrective_links is built and the tuple is returned.
BuildLinksAndReturn ==
  /\ pc = "links"
  /\ LET links == links_for(frame.prediction)
     IN  /\ frame' = frame @@ [corrective_links |-> links]
         /\ ret' = <<frame.prediction, frame.prob_real, links>>
  /\ pc' = "returned"
  /\ UNCHANGED <<text, caller_vars, app_vars>>

Next ==
  \/ ReturnDefault
  \/ ExtractFeatures
  \/ ApplyPenalties
  \/ ClampAndPredict
  \/ BuildLinksAndReturn

Spec == Init /\ [][Next]_vars

(***************************************************************************)
(* A caller that calls detect_fake_news_mock repeatedly and edits the      *)
(* lists it got back.                                                      *)
(***************************************************************************)
InitCalls ==
  /\ ScorerUnused
  /\ AppUnused
  /\ heap = <<>>
  /\ log = <<>>
  /\ mutations = 0
  /\ scored = CallResults

\* prediction, prob, links = detect_fake_news_mock(CallTexts[k])
Call(k) ==
  /\ Len(log) < MaxCalls
  /\ LET r    == scored[k]
         ref  == result_list(heap, log, k)
         heap1 == IF ref > Len(heap) THEN Append(heap, r[3]) ELSE heap
     IN  /\ heap' = heap1
         /\ log' = Append(log, [arg |-> k, prediction |-> r[1],
                                prob_real |-> r[2], ref |-> ref,
                                links |-> heap1[ref]])
  /\ UNCHANGED <<mutations, scored, scorer_vars, app_vars>>

\* links.clear() on a list a call returned
CallerClears(ref) ==
  /\ mutations < MaxMutations
  /\ heap[ref] # <<>>
  /\ heap' = [heap EXCEPT ![ref] = <<>>]
  /\ mutations' = mutations + 1
  /\ UNCHANGED <<log, scored, scorer_vars, app_vars>>

\* links.append(...) on a list a call returned
CallerAppends(ref) ==
  /\ mutations < MaxMutations
  /\ heap' = [heap EXCEPT ![ref] = Append(@, JUNK_LINK)]
  /\ mutations' = mutations + 1
  /\ UNCHANGED <<log, scored, scorer_vars, app_vars>>

NextCalls ==
  \/ \E k \in DOMAIN CallTexts : Call(k)
  \/ \E ref \in DOMAIN heap : CallerClears(ref)
  \/ \E ref \in DOMAIN heap : CallerAppends(ref)

SpecCalls == InitCalls /\ [][NextCalls]_vars

(***************************************************************************)
(* main_app: the Streamlit script.  Every user event reruns the script     *)
(* from the top, abandoning the run in progress.                           *)
(***************************************************************************)
InitApp ==
  /\ ScorerUnused
  /\ CallerUnused
  /\ news_input_key = <<>>
  /\ button = "none"
  /\ app_pc = "buttons"
  /\ current_news_text = <<>>
  /\ i = 0
  /\ screen = BlankScreen
  /\ result = <<>>

\* A fresh run: the text area is read, the page is clean.
StartRun(box, clicked) ==
  /\ news_input_key' = box
  /\ current_news_text' = box
  /\ button' = clicked
  /\ app_pc' = "buttons"
  /\ i' = 0
  /\ screen' = BlankScreen
  /\ result' = <<>>

\* The user commits a text and/or clicks one of the three buttons.
UserEvent(t, clicked) ==
  /\ StartRun(t, clicked)
  /\ UNCHANGED <<scorer_vars, caller_vars>>

\* if example_button_fake: session_state.news_input_key = ...; st.rerun()
LoadFakeExample ==
  /\ app_pc = "buttons"
  /\ button = "fake"
  /\ StartRun(FAKE_EXAMPLE, "none")
  /\ UNCHANGED <<scorer_vars, caller_vars>>

\* if example_button_real: session_state.news_input_key = ...; st.rerun()
LoadRealExample ==
  /\ app_pc = "buttons"
  /\ button = "real"
  /\ StartRun(REAL_EXAMPLE, "none")
  /\ UNCHANGED <<scorer_vars, caller_vars>>

\* `if detect_button:` is false: the script ends.
NoAnalysis ==
  /\ app_pc = "buttons"
  /\ button = "none"
  /\ app_pc' = "done"
  /\ UNCHANGED <<news_input_key, button, current_news_text, i, screen, result,
                 scorer_vars, caller_vars>>

\* if not current_news_text: st.error(...); return
RejectEmpty ==
  /\ app_pc = "buttons"
  /\ button = "analyze"
  /\ input_is_missing(current_news_text)
  /\ screen' = [screen EXCEPT !.error = TRUE]
  /\ app_pc' = "done"
  /\ UNCHANGED <<news_input_key, button, current_news_text, i, result,
                 scorer_vars, caller_vars>>

\* st.info(...); progress_bar = st.progress(0)
StartProgress ==
  /\ app_pc = "buttons"
  /\ button = "analyze"
  /\ ~input_is_missing(current_news_text)
  /\ screen' = [screen EXCEPT !.info = TRUE, !.bar = "0"]
  /\ i' = 0
  /\ app_pc' = "loop"
  /\ UNCHANGED <<news_input_key, button, current_news_text, result,
                 scorer_vars, caller_vars>>

\* time.sleep(0.01); progress_bar.progress(i + 1)
ProgressStep ==
  /\ app_pc = "loop"
  /\ i < PROGRESS_STEPS
  /\ i' = i + 1
  /\ screen' = [screen EXCEPT !.bar = "moving"]
  /\ UNCHANGED <<news_input_key, button, app_pc, current_news_text, result,
                 scorer_vars, caller_vars>>

\* progress_bar.empty(); the call of detect_fake_news_mock
CallScorer ==
  /\ app_pc = "loop"
  /\ i = PROGRESS_STEPS
  /\ screen' = [screen EXCEPT !.bar = "emptied"]
  /\ result' = detect_fake_news_mock(current_news_text)
  /\ app_pc' = "display"
  /\ UNCHANGED <<news_input_key, button, current_news_text, i,
                 scorer_vars, caller_vars>>

\* display_result(...) and the expander
DisplayResult ==
  /\ app_pc = "display"
  /\ screen' = [display_result(screen, result[1], result[2], result[3])
                  EXCEPT !.details = TRUE]
  /\ app_pc' = "done"
  /\ UNCHANGED <<news_input_key, button, current_news_text, i, result,
                 scorer_vars, caller_vars>>

NextApp ==
  \/ \E t \in TypedTexts, clicked \in {"none", "analyze", "fake", "real"} :
        UserEvent(t, clicked)
  \/ LoadFakeExample
  \/ LoadRealExample
  \/ NoAnalysis
  \/ RejectEmpty
  \/ StartProgress
  \/ ProgressStep
  \/ CallScorer
  \/ DisplayResult

SpecApp == InitApp /\ [][NextApp]_vars

(***************************************************************************)
(* Properties of detect_fake_news_mock (checked under Spec).               *)
(***************************************************************************)
Returned == pc = "returned"

\* p as a rational equals num / den, for integers num and den > 0.
RatIs(p, num, den) == p.n * den = num * p.d

\* word occurs in t at offset q when both are compared case-insensitively.
OccursFoldedAt(word, t, q) ==
  /\ q + Len(word) <= Len(t)
  /\ \A j \in DOMAIN word : LowerChar(t[q + j]) = LowerChar(word[j])

OccursFolded(word, t) == \E q \in 0..Len(t) : OccursFoldedAt(word, t, q)

\* The whitespace-delimited token of t that starts at position a ends here.
TokenEndFrom(t, a) ==
  CHOOSE b \in a..Len(t) :
     /\ b = Len(t) \/ t[b + 1] \in Whitespace
     /\ \A c \in a..(b - 1) : t[c + 1] \notin Whitespace

TokenFrom(t, a) == SubSeq(t, a, TokenEndFrom(t, a))

\* The positions of t where a whitespace-delimited token starts.
TokenPositions(t) ==
  {a \in 1..Len(t) :
     t[a] \notin Whitespace /\ (a = 1 \/ t[a - 1] \in Whitespace)}

\* C1: the returned probabilityReal lies in [0.05, 0.95] for every text.
C1_ProbInRange ==
  Returned => /\ 5 * ret[2].d <= 100 * ret[2].n
              /\ 100 * ret[2].n <= 95 * ret[2].d

\* An all-caps text with two keywords: the raw value is negative, 0.05 is
\* returned.
C1_Witness ==
  /\ Returned
  /\ frame # <<>>
  /\ frame.sensational_count >= 2
  /\ frame.all_caps_words = frame.word_count
  /\ RatIs(ret[2], 5, 100)

\* C2 as claimed: for every text, the links are non-empty iff the label is
\* FAKE, and a non-empty list is the fixed three links in order.
C2_Original ==
  Returned =>
    /\ (ret[3] # <<>>) <=> (ret[1] = 0)
    /\ ret[3] # <<>> =>
         /\ Len(ret[3]) = 3
         /\ ret[3][1].url = "https://trustedscience.org/fact-check"
         /\ ret[3][2].url = "https://federalreserve.gov/latest-reports"
         /\ ret[3][3].url = "https://medialiteracy.org/clickbait-guide"

\* C2 amended: for every non-empty text the links are non-empty iff the
\* label is FAKE; the empty text is labelled FAKE with no links; a non-empty
\* list is always the fixed three links in order.
C2_LinksIffFakeNonEmptyText ==
  Returned =>
    /\ text # <<>> => ((ret[3] # <<>>) <=> (ret[1] = 0))
    /\ text = <<>> => (ret[1] = 0 /\ ret[3] = <<>>)
    /\ ret[3] # <<>> =>
         /\ Len(ret[3]) = 3
         /\ ret[3][1].url = "https://trustedscience.org/fact-check"
         /\ ret[3][2].url = "https://federalreserve.gov/latest-reports"
         /\ ret[3][3].url = "https://medialiteracy.org/clickbait-guide"
         /\ ret[3][1].title =
              "Fact-Check: Separating Science from Misinformation (Science Journal)"
         /\ ret[3][2].title =
              "Official Statement on Economic Outlook (Federal Reserve)"
         /\ ret[3][3].title =
              "Understanding Clickbait Language: A Guide to Media Literacy"

\* A long neutral text: label REAL, no links.
C2_Witness ==
  /\ Returned
  /\ text # <<>>
  /\ ret[1] = 1
  /\ ret[3] = <<>>

\* C3: for a non-empty text the label is REAL iff probabilityReal >= 0.5
\* (0.5 itself gives REAL); FAKE at >= 0.5 happens for the empty text only.
C3_LabelIffHalf ==
  Returned =>
    /\ text # <<>> => ((ret[1] = 1) <=> (2 * ret[2].n >= ret[2].d))
    /\ (ret[1] = 0 /\ 2 * ret[2].n >= ret[2].d) => text = <<>>
    /\ text = <<>> => (ret[1] = 0 /\ 2 * ret[2].n >= ret[2].d)

\* A non-empty text scored exactly 0.5 and labelled REAL.
C3_Witness ==
  /\ Returned
  /\ text # <<>>
  /\ RatIs(ret[2], 1, 2)
  /\ ret[1] = 1

\* C4 as claimed: an empty or whitespace-only text returns (FAKE, 0.5, [])
\* with no feature extraction and no penalty.
C4_Original ==
  (Returned /\ \A k \in DOMAIN text : text[k] \in Whitespace) =>
    /\ ret = <<0, [n |-> 1, d |-> 2], <<>>>>
    /\ frame = <<>>

\* C4 amended: the empty text returns (FAKE, 0.5, []) with no feature
\* extraction and no penalty; a non-empty whitespace-only text is scored like
\* any other text: word count 0, the short-text penalty, (FAKE, 0.35, the
\* three links).
C4_EmptyOnlyShortCircuit ==
  Returned =>
    /\ text = <<>> => (ret = <<0, [n |-> 1, d |-> 2], <<>>>> /\ frame = <<>>)
    /\ (text # <<>> /\ \A k \in DOMAIN text : text[k] \in Whitespace) =>
         /\ frame # <<>>
         /\ frame.word_count = 0
         /\ ret[1] = 0
         /\ RatIs(ret[2], 35, 100)
         /\ Len(ret[3]) = 3

\* The empty text has returned the default.
C4_Witness ==
  /\ Returned
  /\ text = <<>>
  /\ ret = <<0, [n |-> 1, d |-> 2], <<>>>>

\* C5: for a non-empty text, probabilityReal is
\* clamp(0.5 - 0.08 s - 0.30 c + L, 0.05, 0.95) with L = -0.15 below 100
\* words, +0.10 above 300 and 0 from 100 to 300 inclusive.  Stated in
\* integers, in units of 1 / (100 * max(w, 1)).
C5_ProbFormula ==
  (Returned /\ text # <<>>) =>
    LET s == frame.sensational_count
        a == frame.all_caps_words
        w == frame.word_count
        u == IF w = 0 THEN 1 ELSE w
        L == IF w < 100 THEN -15 ELSE IF w > 300 THEN 10 ELSE 0
        raw == (50 - 8 * s + L) * u - 30 * a
        hi == IF raw > 95 * u THEN 95 * u ELSE raw
        clamped == IF hi < 5 * u THEN 5 * u ELSE hi
    IN  RatIs(ret[2], clamped, 100 * u)

\* A neutral text of exactly 300 words: no length adjustment, 0.5.
C5_Witness ==
  /\ Returned
  /\ text # <<>>
  /\ frame.word_count = 300
  /\ frame.sensational_count = 0
  /\ frame.all_caps_words = 0
  /\ RatIs(ret[2], 1, 2)

\* C7: sensationalCount is the number of distinct phrases of the 15-phrase
\* table that occur in the text as a case-insensitive substring, whatever
\* the number of occurrences; it lies in 0..15.
C7_SensationalCount ==
  (Returned /\ text # <<>>) =>
    /\ frame.sensational_count =
         Cardinality({k \in DOMAIN sensational_words :
                        OccursFolded(sensational_words[k], text)})
    /\ frame.sensational_count \in 0..15
    /\ Len(sensational_words) = 15
    /\ Cardinality({sensational_words[k] : k \in DOMAIN sensational_words}) = 15

\* "lie" occurs at two offsets at least, once in capitals, and counts once.
C7_Witness ==
  /\ Returned
  /\ text # <<>>
  /\ frame.sensational_count = 1
  /\ \E q1, q2 \in 0..Len(text) :
        /\ q1 # q2
        /\ OccursFoldedAt(<<"l", "i", "e">>, text, q1)
        /\ OccursFoldedAt(<<"L", "I", "E">>, text, q2)
        /\ SubSeq(text, q2 + 1, q2 + 3) = <<"L", "I", "E">>

\* C8 as claimed: the all-caps count is the number of tokens longer than 2
\* made only of uppercase letters, digits and punctuation (no lowercase
\* letter); the ratio is that count over wordCount and lies in [0, 1].
C8_Original ==
  (Returned /\ text # <<>>) =>
    /\ frame.all_caps_words =
         Cardinality({a \in TokenPositions(text) :
            LET tok == TokenFrom(text, a)
            IN  /\ Len(tok) > 2
                /\ \A k \in DOMAIN tok : tok[k] \notin LowerSet})
    /\ frame.word_count > 0 =>
         RatIs(frame.caps_ratio, frame.all_caps_words, frame.word_count)

\* C8 amended: the all-caps count is the number of tokens longer than 2 that
\* hold at least one uppercase letter and no lowercase letter (digits and
\* punctuation alone do not count); the ratio is that count over wordCount,
\* lies in [0, 1], and is not computed (the term is skipped, as if 0) when
\* wordCount = 0.
C8_CapsRatio ==
  (Returned /\ text # <<>>) =>
    /\ frame.word_count = Cardinality(TokenPositions(text))
    /\ frame.all_caps_words =
         Cardinality({a \in TokenPositions(text) :
            LET tok == TokenFrom(text, a)
            IN  /\ Len(tok) > 2
                /\ \E k \in DOMAIN tok : tok[k] \in UpperSet
                /\ \A k \in DOMAIN tok : tok[k] \notin LowerSet})
    /\ frame.word_count > 0 =>
         /\ RatIs(frame.caps_ratio, frame.all_caps_words, frame.word_count)
         /\ 0 <= frame.caps_ratio.n
         /\ frame.caps_ratio.n <= frame.caps_ratio.d
    /\ frame.word_count = 0 =>
         /\ "caps_ratio" \notin DOMAIN frame
         /\ frame.all_caps_words = 0

\* A text with an all-caps token and a token of digits and punctuation
\* longer than 2: only the first is counted.
C8_Witness ==
  /\ Returned
  /\ text # <<>>
  /\ frame.all_caps_words = 1
  /\ \E a \in TokenPositions(text) :
        LET tok == TokenFrom(text, a)
        IN  /\ Len(tok) > 2
            /\ \A k \in DOMAIN tok : tok[k] \notin (LowerSet \cup UpperSet)

\* C10: a non-empty text of fewer than 100 tokens is labelled FAKE with
\* probabilityReal <= 0.35 and gets the three links; REAL needs >= 100 words.
C10_ShortTextIsFake ==
  (Returned /\ text # <<>>) =>
    /\ Cardinality(TokenPositions(text)) < 100 =>
         /\ ret[1] = 0
         /\ 100 * ret[2].n <= 35 * ret[2].d
         /\ Len(ret[3]) = 3
    /\ ret[1] = 1 => Cardinality(TokenPositions(text)) >= 100

\* A neutral text of 99 words: 0.35, FAKE, three links.
C10_Witness ==
  /\ Returned
  /\ text # <<>>
  /\ frame.word_count = 99
  /\ frame.sensational_count = 0
  /\ frame.all_caps_words = 0
  /\ RatIs(ret[2], 35, 100)
  /\ ret[1] = 0
  /\ Len(ret[3]) = 3

(***************************************************************************)
(* Property of repeated calls (checked under SpecCalls).                   *)
(***************************************************************************)
\* C6: two calls with the same text return identical verdicts, whatever
\* calls came before and whatever the caller did to a returned list.
C6_SameTextSameVerdict ==
  \A a, b \in DOMAIN log :
     log[a].arg = log[b].arg =>
       /\ log[a].prediction = log[b].prediction
       /\ log[a].prob_real = log[b].prob_real
       /\ log[a].links = log[b].links

\* The same FAKE text scored twice, the first returned list edited since.
C6_Witness ==
  \E a, b \in DOMAIN log :
     /\ a < b
     /\ log[a].arg = log[b].arg
     /\ log[a].links # <<>>
     /\ heap[log[a].ref] # log[a].links
     /\ log[b].links = log[a].links

(***************************************************************************)
(* Property of main_app (checked under SpecApp).                           *)
(***************************************************************************)
\* C9: a result card is on screen only in a run started by Analyze with a
\* non-empty text, after all 100 progress steps, and shows exactly
\* detect_fake_news_mock of the text in the box; Analyze with an empty text
\* shows the error and never calls the scorer; a run started by an example
\* button renders nothing and never calls the scorer.
C9_ResultOnlyAfterAnalysis ==
  /\ (result # <<>> \/ screen.card # <<>>) =>
       /\ button = "analyze"
       /\ current_news_text # <<>>
       /\ current_news_text = news_input_key
       /\ i = 100
       /\ screen.bar = "emptied"
       /\ ~screen.error
  /\ screen.card # <<>> =>
       LET v == detect_fake_news_mock(news_input_key)
       IN  /\ screen.card[1].prediction = v[1]
           /\ screen.card[1].confidence = v[2]
           /\ screen.card[1].corrective_links = v[3]
           /\ screen.links = v[3]
  /\ screen.error =>
       /\ button = "analyze"
       /\ current_news_text = <<>>
       /\ result = <<>>
       /\ screen.card = <<>>
  /\ (button = "analyze" /\ current_news_text = <<>> /\ app_pc = "done") =>
       screen.error
  /\ button \in {"fake", "real"} => (screen = BlankScreen /\ result = <<>>)

\* The fake example was analysed and its card is shown.
C9_Witness ==
  /\ screen.card # <<>>
  /\ button = "analyze"
  /\ news_input_key = FAKE_EXAMPLE
  /\ screen.card[1].prediction = 0
  /\ Len(screen.links) = 3
  /\ app_pc = "done"

====
